---- MODULE Spec2Model ----
(***************************************************************************)
(* A model of three parts of the Memex extension:                          *)
(*   - importPage          (src/search/search-index-new/import.ts)         *)
(*   - Storage             (src/search/search-index-new/storage/index.ts)  *)
(*   - IndexDropdownContainer (the tag/domain dropdown container)          *)
(* Each part has its own specification (SpecImport, SpecSchema, SpecClear, *)
(* SpecDropdown, and SpecSelection for tag selection on longer lists); the *)
(* variables of the other parts stay at their idle values.                 *)
(***************************************************************************)
EXTENDS Integers, Sequences, FiniteSets, Bags, TLC

VARIABLES
    \* ---- importPage ----
    page,            \* the Partial<ExportedPage> argument
    ipc,             \* position of the importPage coroutine
    calls,           \* calls made to the index, in start order, with their promise status
    \* ---- Storage: schema ----
    dexieHistory,    \* argument of _initSchema (Null when there is no storage manager)
    spc,             \* position of the constructor / _initSchema
    baseSchema,      \* the object bound to the const `baseSchema`
    registered,      \* calls this.version(n).stores(s)[.upgrade(cb)], in order
    hidx,            \* forEach index into dexieHistory
    records,         \* records held by the tables (store content seen by upgrades)
    upgraded,        \* versions whose upgrade callback has run
    \* ---- Storage: clearData ----
    storeTables,     \* this.tables
    data,            \* table name -> set of record keys
    cpc,             \* per clearData call, in call order: position of its coroutine
    cidx,            \* per clearData call: its loop index (the table it clears next)
    clearsInFlight,  \* the clear() calls made and not settled: [call, table]
    wrote,           \* per clearData call: some other writer wrote since the call
    \* ---- IndexDropdownContainer ----
    props,           \* props.source, props.url
    searchVal, displayFilters, filters, focused,   \* this.state
    debouncePending, \* a debounced fetchTagSuggestions call is scheduled
    suggestInFlight, \* the suggest RPCs awaited by runs of fetchTagSuggestions: a bag of
                     \* the `suggestions` fallback each run read before its await
    rpcCalls,        \* addTag/delTag RPCs invoked by the last handler
    cbCalls          \* onFilterAdd/onFilterDel calls made by the last handler

importVars   == <<page, ipc, calls>>
schemaVars   == <<dexieHistory, spc, baseSchema, registered, hidx, records, upgraded>>
clearVars    == <<storeTables, data, cpc, cidx, clearsInFlight, wrote>>
dropdownVars == <<props, searchVal, displayFilters, filters, focused,
                  debouncePending, suggestInFlight, rpcCalls, cbCalls>>
vars == <<importVars, schemaVars, clearVars, dropdownVars>>

Null == "null"
Undefined == "undefined"

(***************************************************************************)
(* Generic helpers                                                         *)
(***************************************************************************)
SeqsUpTo(S, n) == UNION {[1..k -> S] : k \in 0..n}

Range(s) == {s[i] : i \in 1..Len(s)}

(***************************************************************************)
(*                              importPage                                 *)
(***************************************************************************)
MaxTags == 2
MaxVisits == 2

TagNames == {"t1", "t2"}
Timestamps == {1, 2}
VisitFields == {"duration"}
MetaValues == {Undefined, "30"}

\* A visit is its timestamp plus the remaining own properties (`rest`).
VisitRests == UNION {[F -> MetaValues] : F \in SUBSET VisitFields}
ExportedVisits == [timestamp : Timestamps, rest : VisitRests]
ExportedPages ==
    [url : {"example.com/a"}, fullUrl : {"https://example.com/a"},
     tags : SeqsUpTo(TagNames, MaxTags),
     visits : SeqsUpTo(ExportedVisits, MaxVisits)]

NoPage == [url |-> Null, fullUrl |-> Null, tags |-> <<>>, visits |-> <<>>]

\* page.visits.map(visit => visit.timestamp)
VisitTimestamps(p) == [i \in 1..Len(p.visits) |-> p.visits[i].timestamp]

\* addPage({ pageDoc: { url: page.fullUrl, ... }, visits: ... })
AddPageCall(p) ==
    [fn |-> "addPage", url |-> p.fullUrl, visits |-> VisitTimestamps(p),
     tag |-> Null, time |-> 0, meta |-> <<>>, status |-> "pending"]

\* page.tags.map(tag => addTag(page.url, tag))
AddTagCalls(p) ==
    [i \in 1..Len(p.tags) |->
        [fn |-> "addTag", url |-> p.url, visits |-> <<>>,
         tag |-> p.tags[i], time |-> 0, meta |-> <<>>, status |-> "pending"]]

\* Object.keys(visit).length > 0
HasMetaAlways(visit) == TRUE
HasMeta(visit) == Cardinality(DOMAIN visit.rest) > 0

\* updateTimestampMeta(page.url, timestamp, { ...visit })
UpdateMetaCall(p, visit) ==
    [fn |-> "updateTimestampMeta", url |-> p.url, visits |-> <<>>,
     tag |-> Null, time |-> visit.timestamp, meta |-> visit.rest,
     status |-> "pending"]

\* page.visits.map(v => keys(v).length > 0 ? updateTimestampMeta(...) : Promise.resolve())
UpdateMetaCalls(p) ==
    LET withMeta == SelectSeq(p.visits, HasMeta)
    IN  [i \in 1..Len(withMeta) |-> UpdateMetaCall(p, withMeta[i])]

CallsOf(fn) == {i \in 1..Len(calls) : calls[i].fn = fn}

\* `await p`: the awaited promise(s) resolved / one of them rejected
AllResolved(fn) == \A i \in CallsOf(fn) : calls[i].status = "resolved"
SomeRejected(fn) == \E i \in CallsOf(fn) : calls[i].status = "rejected"

\* `await addPage(...)` (line 5)
AddPageAwaited == AllResolved("addPage")

\* `await Promise.all(page.tags.map(...))` (line 20)
TagsAwaitedNoAwait == TRUE
TagsAwaited == AllResolved("addTag")

ImportFresh ==
    /\ page \in ExportedPages
    /\ ipc = "start"
    /\ calls = <<>>

IdleImport ==
    /\ page = NoPage
    /\ ipc = "idle"
    /\ calls = <<>>

\* importPage(page) is called: runs up to the first await
ImportPageCall ==
    /\ ipc = "start"
    /\ calls' = <<AddPageCall(page)>>
    /\ ipc' = "awaitAddPage"
    /\ UNCHANGED page
    /\ UNCHANGED <<schemaVars, clearVars, dropdownVars>>

\* a promise returned by the index settles
SettleCall(i, outcome) ==
    /\ i \in 1..Len(calls)
    /\ calls[i].status = "pending"
    /\ calls' = [calls EXCEPT ![i].status = outcome]
    /\ UNCHANGED <<page, ipc>>
    /\ UNCHANGED <<schemaVars, clearVars, dropdownVars>>

\* continuation after `await addPage`: all addTag calls start
AfterAddPage ==
    /\ ipc = "awaitAddPage"
    /\ AddPageAwaited
    /\ calls' = calls \o AddTagCalls(page)
    /\ ipc' = "awaitTags"
    /\ UNCHANGED page
    /\ UNCHANGED <<schemaVars, clearVars, dropdownVars>>

\* continuation after `await Promise.all(tags)`: the updateTimestampMeta calls start
AfterTags ==
    /\ ipc = "awaitTags"
    /\ TagsAwaited
    /\ calls' = calls \o UpdateMetaCalls(page)
    /\ ipc' = "awaitMeta"
    /\ UNCHANGED page
    /\ UNCHANGED <<schemaVars, clearVars, dropdownVars>>

\* continuation after the last await: importPage resolves
AfterMeta ==
    /\ ipc = "awaitMeta"
    /\ AllResolved("updateTimestampMeta")
    /\ ipc' = "resolved"
    /\ UNCHANGED <<page, calls>>
    /\ UNCHANGED <<schemaVars, clearVars, dropdownVars>>

\* an awaited promise rejected: the await throws and importPage rejects
ImportReject ==
    /\ \/ ipc = "awaitAddPage" /\ SomeRejected("addPage")
       \/ ipc = "awaitTags" /\ SomeRejected("addTag")
       \/ ipc = "awaitMeta" /\ SomeRejected("updateTimestampMeta")
    /\ ipc' = "rejected"
    /\ UNCHANGED <<page, calls>>
    /\ UNCHANGED <<schemaVars, clearVars, dropdownVars>>

NextImport ==
    \/ ImportPageCall
    \/ \E i \in DOMAIN calls, o \in {"resolved", "rejected"} : SettleCall(i, o)
    \/ AfterAddPage
    \/ AfterTags
    \/ AfterMeta
    \/ ImportReject

(***************************************************************************)
(*                      Storage: constructor, _initSchema                  *)
(***************************************************************************)
MaxHistory == 2
MaxVersion == 2

baseVersion == 1

\* A table definition is the list of its index specs ('[time+url], url' is
\* <<"[time+url]", "url">>); the first one is the primary key.
PrimaryKey(def) == def[1]

BaseSchema ==
    [t \in {"pages", "visits", "bookmarks", "tags", "favIcons"} |->
        CASE t = "pages" -> <<"url", "*terms", "*titleTerms", "*urlTerms", "domain", "hostname">>
          [] t = "visits" -> <<"[time+url]", "url">>
          [] t = "bookmarks" -> <<"url", "time">>
          [] t = "tags" -> <<"[name+url]", "name", "url">>
          [] t = "favIcons" -> <<"hostname">>]

\* Object.assign(target, source): the properties of target after the call
AssignReversed(target, source) ==
    [k \in DOMAIN target \cup DOMAIN source |->
        IF k \in DOMAIN target THEN target[k] ELSE source[k]]
ObjectAssign(target, source) ==
    [k \in DOMAIN target \cup DOMAIN source |->
        IF k \in DOMAIN source THEN source[k] ELSE target[k]]

\* Schemas a history entry may carry: a redefined base table, a new table, both.
HistorySchemas ==
    { [t \in {"tags"} |-> <<"[name+url]", "name", "url", "createdAt">>],
      [t \in {"customLists"} |-> <<"id", "name">>],
      [t \in {"customLists", "visits"} |->
          IF t = "visits" THEN <<"[time+url]", "url", "duration">>
                          ELSE <<"id", "name", "*pages">>] }

\* A migration, were it ever called, would change the records of a table.
MigrationLists == {<<>>, <<"dropVisits">>, <<"tagAll", "dropVisits">>}

MigrationEffect(m, recs) ==
    CASE m = "dropVisits" -> [recs EXCEPT !["visits"] = {}]
      [] m = "tagAll" -> [recs EXCEPT !["tags"] = recs["tags"] \cup recs["pages"]]

\* What the constructor passes to _initSchema:
\* storageManager && getDexieHistory(storageManager.registry)
NoHistory == [given |-> FALSE, entries |-> <<>>]
GivenHistory(h) == [given |-> TRUE, entries |-> h]

\* DexieSchema.version of a history entry: the number the forEach callback adds
\* to baseVersion, whatever it is (0 makes the sum baseVersion itself)
HistoryVersions == 0..MaxVersion

DexieSchemas ==
    [version : HistoryVersions, schema : HistorySchemas, migrations : MigrationLists]
DexieHistories == SeqsUpTo(DexieSchemas, MaxHistory)

\* Store contents an upgrade may find.
InitialStores ==
    { [t \in DOMAIN BaseSchema |-> {}],
      [t \in DOMAIN BaseSchema |-> IF t \in {"pages", "visits"} THEN {"a"} ELSE {}],
      [t \in DOMAIN BaseSchema |-> IF t = "favIcons" THEN {} ELSE {"a", "b"}] }

\* dexieHistory = dexieHistory || []
HistoryOrEmpty(h) == IF h.given THEN h.entries ELSE <<>>

\* this.version(n).stores(schema): the version is registered with the tables
\* and indexes `schema` holds when stores() is called.
Registration(n, schema, migrations, withUpgrade) ==
    [version |-> n, schema |-> schema, migrations |-> migrations,
     upgrade |-> withUpgrade]

\* .upgrade(() => { migrations.forEach(migration => { /* TODO */ }) })
RECURSIVE UpgradeCallbackMigrating(_, _)
UpgradeCallbackMigrating(recs, migrations) ==
    IF migrations = <<>> THEN recs
    ELSE UpgradeCallbackMigrating(MigrationEffect(Head(migrations), recs),
                                  Tail(migrations))
RECURSIVE UpgradeCallback(_, _)
UpgradeCallback(recs, migrations) ==
    IF migrations = <<>> THEN recs
    ELSE UpgradeCallback(recs, Tail(migrations))

SchemaFresh ==
    /\ dexieHistory \in {NoHistory} \cup {GivenHistory(h) : h \in DexieHistories}
    /\ spc = "new"
    /\ baseSchema = <<>>
    /\ registered = <<>>
    /\ hidx = 0
    /\ records \in InitialStores
    /\ upgraded = {}

IdleSchema ==
    /\ dexieHistory = NoHistory
    /\ spc = "idle"
    /\ baseSchema = <<>>
    /\ registered = <<>>
    /\ hidx = 0
    /\ records = <<>>
    /\ upgraded = {}

\* new Storage(...) up to the forEach: this.version(baseVersion).stores(baseSchema)
InitSchemaBase ==
    /\ spc = "new"
    /\ baseSchema' = BaseSchema
    /\ registered' = <<Registration(baseVersion, BaseSchema, <<>>, FALSE)>>
    /\ hidx' = 1
    /\ spc' = "forEach"
    /\ UNCHANGED <<dexieHistory, records, upgraded>>
    /\ UNCHANGED <<importVars, clearVars, dropdownVars>>

\* one iteration of dexieHistory.forEach
InitSchemaEntry ==
    /\ spc = "forEach"
    /\ hidx <= Len(HistoryOrEmpty(dexieHistory))
    /\ LET entry == HistoryOrEmpty(dexieHistory)[hidx]
           finalVersion == baseVersion + entry.version
           finalSchema == ObjectAssign(baseSchema, entry.schema)
       IN  /\ baseSchema' = finalSchema
           /\ registered' = Append(registered,
                  Registration(finalVersion, finalSchema, entry.migrations, TRUE))
    /\ hidx' = hidx + 1
    /\ UNCHANGED <<dexieHistory, spc, records, upgraded>>
    /\ UNCHANGED <<importVars, clearVars, dropdownVars>>

\* end of the forEach: the model classes are mapped, the instance is ready
InitSchemaDone ==
    /\ spc = "forEach"
    /\ hidx > Len(HistoryOrEmpty(dexieHistory))
    /\ spc' = "ready"
    /\ UNCHANGED <<dexieHistory, baseSchema, registered, hidx, records, upgraded>>
    /\ UNCHANGED <<importVars, clearVars, dropdownVars>>

\* the store runs the upgrade callback registered with registered[i]
RunUpgrade(i) ==
    /\ spc = "ready"
    /\ i \in DOMAIN registered
    /\ registered[i].upgrade
    /\ i \notin upgraded
    /\ records' = UpgradeCallback(records, registered[i].migrations)
    /\ upgraded' = upgraded \cup {i}
    /\ UNCHANGED <<dexieHistory, spc, baseSchema, registered, hidx>>
    /\ UNCHANGED <<importVars, clearVars, dropdownVars>>

NextSchema ==
    \/ InitSchemaBase
    \/ InitSchemaEntry
    \/ InitSchemaDone
    \/ \E i \in DOMAIN registered : RunUpgrade(i)

(***************************************************************************)
(*                          Storage: clearData                             *)
(***************************************************************************)
\* clearData calls followed
MaxClearCalls == 2

\* record keys: one per table tells an empty table from one that holds records
Keys == {"k1"}

\* The order in which the store lists its tables: the base schema's, then
\* the tables the history added.
TableOrder == <<"pages", "visits", "bookmarks", "tags", "favIcons", "customLists">>

\* The schema the constructor ends with for history h (the last one registered).
RECURSIVE FinalSchema(_, _)
FinalSchema(base, h) ==
    IF h = <<>> THEN base
    ELSE FinalSchema(ObjectAssign(base, Head(h).schema), Tail(h))

\* this.tables
TablesOf(schema) == SelectSeq(TableOrder, LAMBDA t : t \in DOMAIN schema)

\* for (const table of this.tables) { await table.clear() }: the clear() calls
\* the loop makes when it (re)enters at index i
NextClearsAllAtOnce(tbls, i) == {tbls[j] : j \in i..Len(tbls)}
NextClears(tbls, i) == IF i <= Len(tbls) THEN {tbls[i]} ELSE {}

\* The histories the cleared store was built with: none, or one entry (enough
\* to give both a store with the base tables and one with an added table).
ClearHistories == {NoHistory} \cup {GivenHistory(<<e>>) : e \in DexieSchemas}

ClearFresh ==
    /\ \E h \in ClearHistories :
          storeTables = TablesOf(FinalSchema(BaseSchema, HistoryOrEmpty(h)))
    /\ data \in [Range(storeTables) -> SUBSET Keys]
    /\ cpc = <<>>
    /\ cidx = <<>>
    /\ clearsInFlight = {}
    /\ wrote = <<>>

IdleClear ==
    /\ storeTables = <<>>
    /\ data = <<>>
    /\ cpc = <<>>
    /\ cidx = <<>>
    /\ clearsInFlight = {}
    /\ wrote = <<>>

\* the clear() calls the loop of call c makes when it (re)enters at index i
ClearsOfCall(c, i) == {[call |-> c, table |-> t] : t \in NextClears(storeTables, i)}

\* clearData() is called, whatever earlier calls are doing: its loop runs up
\* to its first await
ClearDataCall ==
    LET c == Len(cpc) + 1
    IN  /\ c <= MaxClearCalls
        /\ cidx' = Append(cidx, 1)
        /\ clearsInFlight' = clearsInFlight \cup ClearsOfCall(c, 1)
        /\ cpc' = Append(cpc, IF Len(storeTables) = 0 THEN "resolved" ELSE "running")
        /\ wrote' = Append(wrote, FALSE)
        /\ UNCHANGED <<storeTables, data>>
        /\ UNCHANGED <<importVars, schemaVars, dropdownVars>>

\* the table.clear() call c awaits resolves: the table is empty, the loop of
\* call c goes on to the next table or call c resolves
ClearResolves(c) ==
    /\ c \in DOMAIN cpc
    /\ cpc[c] = "running"
    /\ LET t == storeTables[cidx[c]]
       IN  /\ [call |-> c, table |-> t] \in clearsInFlight
           /\ data' = [data EXCEPT ![t] = {}]
           /\ clearsInFlight' = (clearsInFlight \ {[call |-> c, table |-> t]})
                                    \cup ClearsOfCall(c, cidx[c] + 1)
    /\ cidx' = [cidx EXCEPT ![c] = @ + 1]
    /\ cpc' = [cpc EXCEPT ![c] =
                  IF cidx[c] + 1 > Len(storeTables) THEN "resolved" ELSE "running"]
    /\ UNCHANGED <<storeTables, wrote>>
    /\ UNCHANGED <<importVars, schemaVars, dropdownVars>>

\* the table.clear() call c awaits rejects: the await throws, call c rejects
ClearRejects(c) ==
    /\ c \in DOMAIN cpc
    /\ cpc[c] = "running"
    /\ [call |-> c, table |-> storeTables[cidx[c]]] \in clearsInFlight
    /\ clearsInFlight' =
          clearsInFlight \ {[call |-> c, table |-> storeTables[cidx[c]]]}
    /\ cpc' = [cpc EXCEPT ![c] = "rejected"]
    /\ UNCHANGED <<storeTables, data, cidx, wrote>>
    /\ UNCHANGED <<importVars, schemaVars, dropdownVars>>

\* another writer puts a record into a table
PutRecord(t, k) ==
    /\ t \in Range(storeTables)
    /\ k \notin data[t]
    /\ data' = [data EXCEPT ![t] = @ \cup {k}]
    /\ wrote' = [c \in DOMAIN wrote |-> TRUE]
    /\ UNCHANGED <<storeTables, cpc, cidx, clearsInFlight>>
    /\ UNCHANGED <<importVars, schemaVars, dropdownVars>>

NextClear ==
    \/ ClearDataCall
    \/ \E c \in DOMAIN cpc : ClearResolves(c)
    \/ \E c \in DOMAIN cpc : ClearRejects(c)
    \/ \E t \in Range(storeTables), k \in Keys : PutRecord(t, k)

(***************************************************************************)
(*                        IndexDropdownContainer                           *)
(***************************************************************************)
\* addTag is followed while state.filters is shorter than this (a selection
\* adds only a tag the filters lack, so it needs no bound)
MaxFilters == 2
\* suggest requests followed while they are pending
MaxRequests == 2

\* Strings are sequences of one-character strings.
TagAB == <<"a", " ", "b">>
TagDot == <<"a", ".", "b">>
KnownTags == {TagAB, TagDot}

\* props.url: not passed, null, or the page's URL
Urls == {Undefined, Null, "https://a.b/page"}
Sources == {"tag", "domain"}

\* props.initFilters
InitFilterLists == SeqsUpTo(KnownTags, MaxFilters)

\* what the suggest RPC may resolve with
SuggestionLists == {<<>>, <<TagAB>>, <<TagDot, TagAB>>}

\* event.currentTarget.value of a change event
TypedValues ==
    { <<>>, <<" ">>, <<" ", "A", " ", " ", "b">>, <<"a", ".", "B">>, <<"a", "!">> }

\* the focused index is followed up to one past the 'add new tag' row
MaxFocused == MaxFilters + 1

WordChars == {"a", "b", "A", "B"}
SpaceChars == {" "}

\* get inputBlockPattern(): /[^\w\s-.]/gi for domains, /[^\w\s-]/gi for tags
AllowedChars(source) ==
    WordChars \cup SpaceChars \cup {"-"} \cup (IF source = "domain" THEN {"."} ELSE {})

\* this.inputBlockPattern.test(searchVal)
InputBlocked(source, value) ==
    \E i \in 1..Len(value) : value[i] \notin AllowedChars(source)

\* String.prototype.trim
RECURSIVE TrimLeft(_)
TrimLeft(str) ==
    IF str # <<>> /\ Head(str) \in SpaceChars THEN TrimLeft(Tail(str)) ELSE str

RECURSIVE TrimRight(_)
TrimRight(str) ==
    IF str # <<>> /\ str[Len(str)] \in SpaceChars
    THEN TrimRight(SubSeq(str, 1, Len(str) - 1)) ELSE str

Trim(str) == TrimRight(TrimLeft(str))

\* .replace(/\s\s+/g, ' '): every run of two or more whitespace characters
\* becomes one space
RECURSIVE CollapseSpaces(_)
CollapseSpaces(str) ==
    IF str = <<>> THEN <<>>
    ELSE IF Len(str) >= 2 /\ str[1] \in SpaceChars /\ str[2] \in SpaceChars
         THEN <<" ">> \o CollapseSpaces(TrimLeft(str))
         ELSE <<Head(str)>> \o CollapseSpaces(Tail(str))

\* String.prototype.toLowerCase
LowerChar(c) == CASE c = "A" -> "a" [] c = "B" -> "b" [] OTHER -> c
ToLowerCase(str) == [i \in 1..Len(str) |-> LowerChar(str[i])]

\* getSearchVal()
GetSearchVal(raw) == ToLowerCase(CollapseSpaces(Trim(raw)))

\* get allowIndexUpdate(): this.props.url != null
AllowIndexUpdateInverted == props.url \in {Null, Undefined}
AllowIndexUpdate == props.url \notin {Null, Undefined}

\* canCreateTag()
CanCreateTag ==
    IF ~AllowIndexUpdate THEN FALSE
    ELSE LET sv == GetSearchVal(searchVal)
         IN  Len(sv) # 0 /\ ~(\E i \in 1..Len(displayFilters) : displayFilters[i] = sv)

\* this.state.filters.findIndex(val => val === tag), 0-based, -1 when absent
FindIndex(tags, tag) ==
    IF \E k \in 1..Len(tags) : tags[k] = tag
    THEN (CHOOSE k \in 1..Len(tags) :
              tags[k] = tag /\ \A j \in 1..(k - 1) : tags[j] # tag) - 1
    ELSE -1

\* tags => [tag, ...tags]
PrependTag(tag, tags) == <<tag>> \o tags

\* tags => [...tags.slice(0, tagIndex), ...tags.slice(tagIndex + 1)]
RemoveAtSwapsSlices(tags, tagIndex) ==
    SubSeq(tags, tagIndex + 2, Len(tags)) \o SubSeq(tags, 1, tagIndex)
RemoveAt(tags, tagIndex) ==
    SubSeq(tags, 1, tagIndex) \o SubSeq(tags, tagIndex + 2, Len(tags))

\* the tagsReducer handleTagSelection builds for `tag`
SelectionReducer(tags, tag, tagIndex) ==
    IF tagIndex = -1 THEN PrependTag(tag, tags) ELSE RemoveAt(tags, tagIndex)

RpcCall(fn, tag) == [fn |-> fn, url |-> props.url, tag |-> tag]
CbCall(fn, tag) == [fn |-> fn, filter |-> tag]

\* the RPC handleTagSelection invokes (lines 157-175)
SelectionRpcAddOnly(tag, tagIndex) ==
    IF AllowIndexUpdate /\ tagIndex = -1 THEN <<RpcCall("addTag", tag)>> ELSE <<>>
SelectionRpc(tag, tagIndex) ==
    IF AllowIndexUpdate
    THEN <<RpcCall(IF tagIndex = -1 THEN "addTag" ELSE "delTag", tag)>>
    ELSE <<>>

\* the props callback handleTagSelection runs (lines 166, 177)
SelectionCallbackAddOnly(tag, tagIndex) == <<CbCall("onFilterAdd", tag)>>
SelectionCallback(tag, tagIndex) ==
    <<CbCall(IF tagIndex = -1 THEN "onFilterAdd" ELSE "onFilterDel", tag)>>

NoRequest == EmptyBag

DropdownFresh ==
    /\ props \in [source : Sources, url : Urls]
    /\ \E initFilters \in InitFilterLists :
          /\ displayFilters = initFilters
          /\ filters = initFilters
          /\ focused = IF Len(initFilters) # 0 THEN 0 ELSE -1
    /\ searchVal = <<>>
    /\ debouncePending = FALSE
    /\ suggestInFlight = NoRequest
    /\ rpcCalls = <<>>
    /\ cbCalls = <<>>

IdleDropdown ==
    /\ props = [source |-> "tag", url |-> Undefined]
    /\ searchVal = <<>>
    /\ displayFilters = <<>>
    /\ filters = <<>>
    /\ focused = -1
    /\ debouncePending = FALSE
    /\ suggestInFlight = NoRequest
    /\ rpcCalls = <<>>
    /\ cbCalls = <<>>

\* addTag(): 'Enter' presses or 'Add new tag' clicks
AddTagEffect ==
    LET newTag == GetSearchVal(searchVal)
        newTags == <<newTag>> \o filters
    IN  /\ Len(filters) < MaxFilters
        /\ rpcCalls' = IF AllowIndexUpdate THEN <<RpcCall("addTag", newTag)>> ELSE <<>>
        /\ searchVal' = <<>>
        /\ filters' = newTags
        /\ displayFilters' = newTags
        /\ focused' = 0
        /\ cbCalls' = <<CbCall("onFilterAdd", newTag)>>
        /\ UNCHANGED <<props, debouncePending, suggestInFlight>>

\* a handler that returns (or throws) before it changes anything
NoEffect ==
    /\ rpcCalls' = <<>>
    /\ cbCalls' = <<>>
    /\ UNCHANGED <<props, searchVal, displayFilters, filters, focused,
                   debouncePending, suggestInFlight>>

\* handleTagSelection(index)(event); reading getDisplayTags()[index].value
\* throws when no row has that index
TagSelectionEffect(index) ==
    IF index \notin 0..(Len(displayFilters) - 1) THEN NoEffect
    ELSE LET tag == displayFilters[index + 1]
             tagIndex == FindIndex(filters, tag)
         IN  /\ rpcCalls' = SelectionRpc(tag, tagIndex)
             /\ cbCalls' = SelectionCallback(tag, tagIndex)
             /\ filters' = SelectionReducer(filters, tag, tagIndex)
             /\ focused' = index
             /\ UNCHANGED <<props, searchVal, displayFilters,
                            debouncePending, suggestInFlight>>

\* handleSearchEnterPress
SearchEnterPressEffect ==
    IF CanCreateTag /\ focused = Len(displayFilters) THEN AddTagEffect
    ELSE IF Len(displayFilters) # 0 THEN TagSelectionEffect(focused)
    ELSE NoEffect

\* handleSearchArrowPress
SearchArrowPressEffect(key) ==
    LET offset == IF ~AllowIndexUpdate THEN 1
                  ELSE IF CanCreateTag THEN 0 ELSE 1
        last == Len(displayFilters) - offset
        next == IF key = "ArrowUp"
                THEN (IF focused < 1 THEN last ELSE focused - 1)
                ELSE (IF focused = last THEN 0 ELSE focused + 1)
    IN  /\ next <= MaxFocused
        /\ focused' = next
        /\ rpcCalls' = <<>>
        /\ cbCalls' = <<>>
        /\ UNCHANGED <<props, searchVal, displayFilters, filters,
                       debouncePending, suggestInFlight>>

KeyNames == {"Enter", "ArrowUp", "ArrowDown", "Escape"}

\* a click on the row of displayed tag `index`
ClickTag(index) ==
    /\ index \in 0..(Len(displayFilters) - 1)
    /\ TagSelectionEffect(index)
    /\ UNCHANGED <<importVars, schemaVars, clearVars>>

\* a click on the 'add new tag' row, rendered only while canCreateTag()
ClickNewRow ==
    /\ CanCreateTag
    /\ AddTagEffect
    /\ UNCHANGED <<importVars, schemaVars, clearVars>>

\* handleSearchKeyDown
HandleSearchKeyDown(key) ==
    /\ CASE key = "Enter" -> SearchEnterPressEffect
         [] key \in {"ArrowUp", "ArrowDown"} -> SearchArrowPressEffect(key)
         [] OTHER -> NoEffect
    /\ UNCHANGED <<importVars, schemaVars, clearVars>>

\* handleSearchChange: the setState callback schedules the debounced fetch
HandleSearchChange(value) ==
    /\ IF InputBlocked(props.source, value) THEN NoEffect
       ELSE /\ searchVal' = value
            /\ displayFilters' = IF Len(value) = 0 THEN filters ELSE displayFilters
            /\ debouncePending' = TRUE
            /\ rpcCalls' = <<>>
            /\ cbCalls' = <<>>
            /\ UNCHANGED <<props, filters, focused, suggestInFlight>>
    /\ UNCHANGED <<importVars, schemaVars, clearVars>>

\* the debounce timer fires: fetchTagSuggestions runs up to its return or its
\* await, whatever earlier runs still await (MaxRequests runs are followed
\* while they await)
FetchTagSuggestions ==
    /\ debouncePending
    /\ debouncePending' = FALSE
    /\ IF Len(GetSearchVal(searchVal)) = 0 THEN UNCHANGED suggestInFlight
       ELSE /\ BagCardinality(suggestInFlight) < MaxRequests
            /\ suggestInFlight' = suggestInFlight (+) SetToBag({filters})
    /\ rpcCalls' = <<>>
    /\ cbCalls' = <<>>
    /\ UNCHANGED <<props, searchVal, displayFilters, filters, focused>>
    /\ UNCHANGED <<importVars, schemaVars, clearVars>>

\* a suggest RPC resolves; `finally` of the run that awaits it shows the
\* suggestions
SuggestResolves(fallback, suggestions) ==
    /\ BagIn(fallback, suggestInFlight)
    /\ displayFilters' = suggestions
    /\ focused' = 0
    /\ suggestInFlight' = suggestInFlight (-) SetToBag({fallback})
    /\ rpcCalls' = <<>>
    /\ cbCalls' = <<>>
    /\ UNCHANGED <<props, searchVal, filters, debouncePending>>
    /\ UNCHANGED <<importVars, schemaVars, clearVars>>

\* a suggest RPC rejects; `finally` of the run that awaits it shows the filters
\* the run read before the await
SuggestRejects(fallback) ==
    /\ BagIn(fallback, suggestInFlight)
    /\ displayFilters' = fallback
    /\ focused' = 0
    /\ suggestInFlight' = suggestInFlight (-) SetToBag({fallback})
    /\ rpcCalls' = <<>>
    /\ cbCalls' = <<>>
    /\ UNCHANGED <<props, searchVal, filters, debouncePending>>
    /\ UNCHANGED <<importVars, schemaVars, clearVars>>

(***************************************************************************)
(* handleTagSelection on its own: a dropdown built with any list of up to  *)
(* MaxSelected tags out of three, on which rows are clicked and keys are   *)
(* pressed (nothing is typed, so no suggestions are fetched).              *)
(***************************************************************************)
MaxSelected == 3

TagB == <<"b">>
SelectionTags == {TagAB, TagDot, TagB}

\* props.initFilters
SelectionFilterLists == SeqsUpTo(SelectionTags, MaxSelected)

SelectionFresh ==
    /\ props \in [source : Sources, url : Urls]
    /\ \E initFilters \in SelectionFilterLists :
          /\ displayFilters = initFilters
          /\ filters = initFilters
          /\ focused = IF Len(initFilters) # 0 THEN 0 ELSE -1
    /\ searchVal = <<>>
    /\ debouncePending = FALSE
    /\ suggestInFlight = NoRequest
    /\ rpcCalls = <<>>
    /\ cbCalls = <<>>

NextSelection ==
    \/ \E index \in 0..(Len(displayFilters) - 1) : ClickTag(index)
    \/ \E key \in KeyNames : HandleSearchKeyDown(key)

NextDropdown ==
    \/ \E index \in 0..(Len(displayFilters) - 1) : ClickTag(index)
    \/ ClickNewRow
    \/ \E key \in KeyNames : HandleSearchKeyDown(key)
    \/ \E value \in TypedValues : HandleSearchChange(value)
    \/ FetchTagSuggestions
    \/ \E fallback \in BagToSet(suggestInFlight), list \in SuggestionLists :
          SuggestResolves(fallback, list)
    \/ \E fallback \in BagToSet(suggestInFlight) : SuggestRejects(fallback)

(***************************************************************************)
(*                        Claims about importPage                          *)
(***************************************************************************)
CallsNamed(fn) == SelectSeq(calls, LAMBDA c : c.fn = fn)

\* C1: importPage runs its three phases in order: an addTag call has started
\* only if the (single, earlier) addPage call has resolved, and an
\* updateTimestampMeta call has started only if an addTag call was made for
\* every tag of the page, each earlier than it, and all of them have resolved.
C1_PhasesInOrder ==
    /\ \A i \in CallsOf("addTag") :
          \E j \in CallsOf("addPage") : j < i /\ calls[j].status = "resolved"
    /\ \A i \in CallsOf("updateTimestampMeta") :
          /\ \E j \in CallsOf("addPage") : j < i /\ calls[j].status = "resolved"
          /\ Cardinality(CallsOf("addTag")) = Len(page.tags)
          /\ \A j \in CallsOf("addTag") : j < i /\ calls[j].status = "resolved"

\* a page with two tags and a visit with metadata has been imported
C1_Witness ==
    /\ ipc = "resolved"
    /\ Len(page.tags) = 2
    /\ CallsOf("updateTimestampMeta") # {}

\* C2: when importPage has resolved, addPage was called exactly once, with the
\* timestamps of all visits in visit order; the addTag calls are one per tag
\* of page.tags (same order); the updateTimestampMeta calls are one per visit
\* that has a field besides its timestamp (with that timestamp and those
\* fields), and none was made for a visit that has only a timestamp.
C2_CallsMade ==
    ipc = "resolved" =>
        LET pages == CallsNamed("addPage")
            tags  == CallsNamed("addTag")
            metas == CallsNamed("updateTimestampMeta")
            rich  == SelectSeq(page.visits, LAMBDA v : DOMAIN v.rest # {})
        IN  /\ Len(calls) = Len(pages) + Len(tags) + Len(metas)
            /\ Len(pages) = 1
            /\ Len(pages[1].visits) = Len(page.visits)
            /\ \A k \in 1..Len(page.visits) :
                  pages[1].visits[k] = page.visits[k].timestamp
            /\ Len(tags) = Len(page.tags)
            /\ \A k \in 1..Len(tags) :
                  tags[k].tag = page.tags[k] /\ tags[k].url = page.url
            /\ Len(metas) = Len(rich)
            /\ \A k \in 1..Len(metas) :
                  /\ metas[k].time = rich[k].timestamp
                  /\ metas[k].meta = rich[k].rest
                  /\ metas[k].url = page.url

\* an import resolved for a page with a tag, a bare visit and a visit with metadata
C2_Witness ==
    /\ ipc = "resolved"
    /\ page.tags # <<>>
    /\ \E k \in 1..Len(page.visits) : DOMAIN page.visits[k].rest = {}
    /\ \E k \in 1..Len(page.visits) : DOMAIN page.visits[k].rest # {}

(***************************************************************************)
(*                          Claims about Storage                           *)
(***************************************************************************)
\* the clear() calls of clearData call c that are in flight
InFlightOf(c) == {x \in clearsInFlight : x.call = c}

\* a clearData call that resolved while no other writer wrote since it was
\* made leaves every table of the store empty
ResolvedMeansEmpty ==
    \A c \in DOMAIN cpc :
        (cpc[c] = "resolved" /\ ~wrote[c]) =>
            \A t \in Range(storeTables) : data[t] = {}

\* C3 as stated: clearData clears the tables one after the other: at most one
\* table clear() is in flight at any time, and when clearData has resolved and
\* no other writer wrote since it was called, every table of the store is empty.
C3_ClearInSuccession ==
    /\ Cardinality(clearsInFlight) <= 1
    /\ ResolvedMeansEmpty

\* C3 amended: each clearData call clears the tables one after the other: at
\* most one table clear() of the call is in flight at any time, it is the
\* clear() of the table its loop is at, and the call has resolved when its loop
\* is past the last table; when a call has resolved and no other writer wrote
\* since it was made, every table of the store is empty.
C3_ClearInSuccessionPerCall ==
    /\ \A c \in DOMAIN cpc :
          /\ Cardinality(InFlightOf(c)) <= 1
          /\ \A x \in InFlightOf(c) :
                cpc[c] = "running" /\ x.table = storeTables[cidx[c]]
          /\ cpc[c] = "resolved" <=> cidx[c] > Len(storeTables)
    /\ ResolvedMeansEmpty

\* on a store with a table added by the history, the second clearData call
\* has resolved, undisturbed, while the first call (made earlier) still runs
C3_Witness ==
    /\ Len(cpc) = 2
    /\ cpc[1] = "running"
    /\ cpc[2] = "resolved"
    /\ ~wrote[2]
    /\ Len(storeTables) = 6

\* The base schema overlaid with the schemas of history entries 1..i.
OverlayUpTo(i) ==
    LET H == HistoryOrEmpty(dexieHistory)
        mentions(t) == {j \in 1..i : t \in DOMAIN H[j].schema}
        last(t) == CHOOSE j \in mentions(t) : \A k \in mentions(t) : k <= j
    IN  [t \in DOMAIN BaseSchema \cup UNION {DOMAIN H[j].schema : j \in 1..i} |->
            IF mentions(t) = {} THEN BaseSchema[t] ELSE H[last(t)].schema[t]]

\* C4: the i-th history entry is registered (as registration i+1, after the
\* base one) under version 1 + entry.version with the base schema overlaid
\* with the schemas of entries 1..i; once the constructor is done every entry
\* has been registered.
C4_HistoryRegistered ==
    LET H == HistoryOrEmpty(dexieHistory)
    IN  /\ Len(registered) <= Len(H) + 1
        /\ \A i \in 1..Len(H) :
              i + 1 \in DOMAIN registered =>
                  /\ registered[i + 1].version = 1 + H[i].version
                  /\ registered[i + 1].schema = OverlayUpTo(i)
        /\ spc = "ready" => Len(registered) = Len(H) + 1

\* two entries: the first adds customLists and redefines visits, the second
\* redefines tags, and the last registration holds all of it
C4_Witness ==
    /\ spc = "ready"
    /\ Len(HistoryOrEmpty(dexieHistory)) = 2
    /\ DOMAIN dexieHistory.entries[1].schema = {"customLists", "visits"}
    /\ DOMAIN dexieHistory.entries[2].schema = {"tags"}
    /\ registered[3].schema["tags"] = dexieHistory.entries[2].schema["tags"]
    /\ registered[3].schema["visits"] = dexieHistory.entries[1].schema["visits"]

\* a registration holds exactly the tables pages, visits, bookmarks, tags and
\* favIcons, visits keyed by [time+url] and tags keyed by [name+url]
HoldsFiveTables(r) ==
    /\ DOMAIN r.schema = {"pages", "visits", "bookmarks", "tags", "favIcons"}
    /\ PrimaryKey(r.schema["visits"]) = "[time+url]"
    /\ PrimaryKey(r.schema["tags"]) = "[name+url]"

\* C5 as stated: every instance, whatever history it was given, registers
\* version 1 with exactly the tables pages, visits, bookmarks, tags and
\* favIcons, visits keyed by [time+url] and tags keyed by [name+url]: version 1
\* is registered, and what is registered under version 1 is those five tables.
C5_BaseVersion ==
    spc \in {"forEach", "ready"} =>
        /\ Len(registered) >= 1
        /\ registered[1].version = 1
        /\ \A i \in 1..Len(registered) :
              registered[i].version = 1 => HoldsFiveTables(registered[i])

\* What the code does keep: the first registration is version 1 with those
\* five tables, and a later registration is version 1 exactly when the history
\* entry it comes from has version 0.
C5_BaseVersionFirst ==
    spc \in {"forEach", "ready"} =>
        /\ Len(registered) >= 1
        /\ registered[1].version = 1
        /\ HoldsFiveTables(registered[1])
        /\ \A i \in 2..Len(registered) :
              registered[i].version = 1
                  <=> HistoryOrEmpty(dexieHistory)[i - 1].version = 0

\* an instance built with a history entry of version 0 that adds a table:
\* version 1 has been registered a second time, with six tables
C5_Witness ==
    /\ spc = "ready"
    /\ \E i \in 2..Len(registered) :
          /\ registered[i].version = 1
          /\ "customLists" \in DOMAIN registered[i].schema

\* C6: a step that runs an upgrade callback leaves the records of every table
\* as they were.
C6_UpgradeKeepsRecords == [][upgraded' # upgraded => records' = records]_vars

\* an upgrade with migrations has run on a store that holds visits
C6_Witness ==
    /\ \E i \in upgraded : registered[i].migrations # <<>>
    /\ records["visits"] # {}
    /\ records["pages"] # {}

(***************************************************************************)
(*                 Claims about IndexDropdownContainer                     *)
(***************************************************************************)
\* `tags` without its first occurrence of `tag`
WithoutFirst(tags, tag) ==
    LET k == CHOOSE i \in 1..Len(tags) :
                 tags[i] = tag /\ \A j \in 1..(i - 1) : tags[j] # tag
    IN  SubSeq(tags, 1, k - 1) \o SubSeq(tags, k + 1, Len(tags))

\* this step put `tag` in front of state.filters / took one `tag` out of it
StepAdds(tag) == filters' = <<tag>> \o filters
StepRemoves(tag) ==
    \E k \in 1..Len(filters) :
        /\ filters[k] = tag
        /\ filters' = SubSeq(filters, 1, k - 1) \o SubSeq(filters, k + 1, Len(filters))

\* C7: every addTag/delTag RPC a handler invokes is invoked while props.url is
\* set (neither null nor undefined), carries props.url, and carries the tag
\* the same handler adds to (addTag) or removes from (delTag) state.filters.
C7_RpcOnlyWithUrl ==
    [][\A c \in Range(rpcCalls') :
          /\ props.url # Null
          /\ props.url # Undefined
          /\ c.url = props.url
          /\ \/ c.fn = "addTag" /\ StepAdds(c.tag)
             \/ c.fn = "delTag" /\ StepRemoves(c.tag)]_vars

\* a delTag RPC has just been invoked for the page's url
C7_Witness ==
    \E c \in Range(rpcCalls) : c.fn = "delTag" /\ c.url = "https://a.b/page"

\* C8: a step that adds a tag to state.filters calls onFilterAdd once, with
\* that tag, and nothing else; a step that removes a tag calls onFilterDel
\* once, with that tag, and nothing else; a step that leaves state.filters
\* unchanged calls neither; and no step changes state.filters otherwise.
C8_CallbacksFollowFilters ==
    [][/\ Len(filters') > Len(filters) =>
             /\ StepAdds(filters'[1])
             /\ cbCalls' = <<[fn |-> "onFilterAdd", filter |-> filters'[1]]>>
       /\ Len(filters') < Len(filters) =>
             \E k \in 1..Len(filters) :
                /\ filters' = SubSeq(filters, 1, k - 1)
                                \o SubSeq(filters, k + 1, Len(filters))
                /\ cbCalls' = <<[fn |-> "onFilterDel", filter |-> filters[k]]>>
       /\ filters' = filters => cbCalls' = <<>>
       /\ filters' # filters => Len(filters') # Len(filters)]_vars

\* onFilterDel has just run for a tag taken out of a list that keeps another
C8_Witness ==
    /\ cbCalls = <<[fn |-> "onFilterDel", filter |-> TagAB]>>
    /\ filters = <<TagDot>>

SearchChangeStep == \E value \in TypedValues : HandleSearchChange(value)
ArrowPressStep == \E key \in {"ArrowUp", "ArrowDown"} : HandleSearchKeyDown(key)
SuggestionStep ==
    \/ FetchTagSuggestions
    \/ \E fallback \in BagToSet(suggestInFlight) :
          \/ SuggestRejects(fallback)
          \/ \E list \in SuggestionLists : SuggestResolves(fallback, list)

\* the step invoked the RPC that matches its change of state.filters
RpcForChange ==
    \E c \in Range(rpcCalls') :
        \/ c.fn = "addTag" /\ StepAdds(c.tag)
        \/ c.fn = "delTag" /\ StepRemoves(c.tag)

\* C9 as stated: every step that changes state.filters invokes the addTag or
\* delTag RPC for the changed tag, and search-input changes, arrow presses and
\* suggestion responses leave state.filters unchanged.
C9_FiltersFollowIndex ==
    [][/\ filters' # filters => RpcForChange
       /\ (SearchChangeStep \/ ArrowPressStep \/ SuggestionStep) =>
              filters' = filters]_vars

\* C9 amended: while props.url is set, every step that changes state.filters
\* invokes the addTag or delTag RPC for the changed tag; search-input changes,
\* arrow presses and suggestion responses leave state.filters unchanged.
C9_FiltersFollowIndexWithUrl ==
    [][/\ (filters' # filters /\ props.url \notin {Null, Undefined}) => RpcForChange
       /\ (SearchChangeStep \/ ArrowPressStep \/ SuggestionStep) =>
              filters' = filters]_vars

\* with the url set, a tag was just added in front of an associated tag
C9_Witness ==
    /\ props.url = "https://a.b/page"
    /\ Len(filters) >= 2
    /\ rpcCalls = <<[fn |-> "addTag", url |-> props.url, tag |-> filters[1]]>>

\* the step is handleTagSelection(index): a click on that row, or Enter while
\* the row is the one Enter selects
SelectionStep(index) ==
    \/ ClickTag(index)
    \/ /\ HandleSearchKeyDown("Enter")
       /\ ~(CanCreateTag /\ focused = Len(displayFilters))
       /\ focused = index

\* C10: selecting displayed tag `index` prepends the tag to state.filters when
\* it is not there, and then selecting it again gives back the filters held
\* before; otherwise it removes the first occurrence of the tag and keeps the
\* others in order; displayFilters and searchVal stay, focused becomes index.
C10_SelectionToggles ==
    [][\A index \in 0..(Len(displayFilters) - 1) :
          SelectionStep(index) =>
              LET tag == displayFilters[index + 1]
              IN  /\ tag \notin Range(filters) =>
                        /\ filters' = <<tag>> \o filters
                        /\ SelectionReducer(filters', tag, FindIndex(filters', tag))
                              = filters
                  /\ tag \in Range(filters) =>
                        filters' = WithoutFirst(filters, tag)
                  /\ displayFilters' = displayFilters
                  /\ searchVal' = searchVal
                  /\ focused' = index]_vars

\* three different tags are displayed, the middle one was just deselected and
\* the two others are still associated, in the order they were in
C10_Witness ==
    /\ Len(displayFilters) = 3
    /\ Cardinality(Range(displayFilters)) = 3
    /\ focused = 1
    /\ cbCalls = <<[fn |-> "onFilterDel", filter |-> displayFilters[2]]>>
    /\ filters = <<displayFilters[1], displayFilters[3]>>

\* the last index the arrow keys are meant to reach: the 'add new tag' row,
\* which follows the displayed tags, when it is showing, else the last tag row
LastFocusable ==
    IF CanCreateTag THEN Len(displayFilters) ELSE Len(displayFilters) - 1

\* the focused index is on a displayed tag row, or on the 'add new tag' row
\* while that row is showing
FocusOnRow(index) ==
    \/ index \in 0..(Len(displayFilters) - 1)
    \/ index = Len(displayFilters) /\ CanCreateTag

\* C11 as stated: after any ArrowUp or ArrowDown press the focused index lies
\* in 0..displayFilters.length-1, or equals displayFilters.length only when
\* canCreateTag holds; ArrowDown from the last such index wraps to 0 and
\* ArrowUp from index 0 wraps to the last such index.  (An arrow press changes
\* neither displayFilters nor searchVal, so the rows are those before it.)
C11_ArrowKeysCycleFocus ==
    [][/\ ArrowPressStep => FocusOnRow(focused')
       /\ (HandleSearchKeyDown("ArrowDown") /\ focused = LastFocusable)
              => focused' = 0
       /\ (HandleSearchKeyDown("ArrowUp") /\ focused = 0)
              => focused' = LastFocusable]_vars

\* What the code does keep: an arrow press made while the focus is on a row
\* leaves it on a row, one step along and wrapping at both ends.
C11_CyclesFromRow ==
    [][FocusOnRow(focused) =>
          /\ ArrowPressStep => FocusOnRow(focused')
          /\ HandleSearchKeyDown("ArrowDown") =>
                focused' = IF focused = LastFocusable THEN 0 ELSE focused + 1
          /\ HandleSearchKeyDown("ArrowUp") =>
                focused' = IF focused = 0 THEN LastFocusable ELSE focused - 1]_vars

\* every tag row is displayed, the 'add new tag' row is not, and the focus is
\* two past the last tag row, where only an ArrowDown press puts it
C11_Witness ==
    /\ Len(displayFilters) = MaxFilters
    /\ ~CanCreateTag
    /\ focused = Len(displayFilters) + 1

(***************************************************************************)
(*                            Specifications                               *)
(***************************************************************************)
InitImport == ImportFresh /\ IdleSchema /\ IdleClear /\ IdleDropdown
SpecImport == InitImport /\ [][NextImport]_vars

InitSchema == IdleImport /\ SchemaFresh /\ IdleClear /\ IdleDropdown
SpecSchema == InitSchema /\ [][NextSchema]_vars

InitClear == IdleImport /\ IdleSchema /\ ClearFresh /\ IdleDropdown
SpecClear == InitClear /\ [][NextClear]_vars

InitDropdown == IdleImport /\ IdleSchema /\ IdleClear /\ DropdownFresh
SpecDropdown == InitDropdown /\ [][NextDropdown]_vars

InitSelection == IdleImport /\ IdleSchema /\ IdleClear /\ SelectionFresh
SpecSelection == InitSelection /\ [][NextSelection]_vars

====
